---- MODULE Spec2Model ----
(***************************************************************************)
(* A model of simple_camio.py: the marker/corner matcher, the two pose     *)
(* detectors, the zone filter (InteractionPolicy) and the audio dispatcher *)
(* (CamIOPlayer).                                                          *)
(*                                                                         *)
(* Conventions.  Python sequences are 0-based, TLA+ sequences 1-based: a   *)
(* Python index n is the TLA+ index n + 1.  Marker positions in a layout   *)
(* (corner_num) and zone ids keep their Python (0-based) values.           *)
(* Lengths are integers in units of 1/UnitsPerCm centimetre, times are     *)
(* integers in units of 1/TicksPerSecond second.                           *)
(***************************************************************************)
EXTENDS Integers, Sequences, FiniteSets, TLC

(***************************************************************************)
(* Bounds of the model.                                                    *)
(***************************************************************************)
MaxMarkers == 2      \* markers in a layout (arucoCodes entries)
MaxObs == 2          \* markers the detector reports in one frame
MaxTime == 6         \* last clock tick of a dispatcher run
MaxPushes == 11      \* push_gesture calls in a run of the main loop

(***************************************************************************)
(* Program constants and units.                                            *)
(***************************************************************************)
zone_filter_size == 10                \* InteractionPolicy.zone_filter_size
UnitsPerCm == 2                       \* a position coordinate n stands for n/2 cm
TicksPerSecond == 4                   \* a time t stands for t/4 s
ZGate == 2 * UnitsPerCm               \* the 2.0 of "np.abs(position[2]) < 2.0"
Cooldown == TicksPerSecond \div 2     \* the 0.5 of "time.time() - start_time > 0.5"

\* Python's None where an array is expected
None == <<>>

\* Python's None where a string is expected
NoName == "<none>"

Range(s) == {s[i] : i \in DOMAIN s}

Abs(n) == IF n < 0 THEN -n ELSE n

Min2(a, b) == IF a < b THEN a ELSE b

(***************************************************************************)
(* Input domains of the marker detector (cv.aruco.detectMarkers).          *)
(***************************************************************************)
MarkerIds == 0 .. 2

\* the four corners of a detected marker, clockwise from its top-left pixel
Quad(o) == << o, <<o[1] + 1, o[2]>>, <<o[1] + 1, o[2] + 1>>, <<o[1], o[2] + 1>> >>

Quads == {Quad(<<3, 0>>), Quad(<<5, 2>>)}

SeqsUpTo(S, n) == UNION {[1 .. m -> S] : m \in 0 .. n}

\* a layout: positioningData.arucoCodes ids, unique, at least one marker
Layouts == {l \in SeqsUpTo(MarkerIds, MaxMarkers) :
              /\ Len(l) >= 1
              /\ \A i, j \in DOMAIN l : i # j => l[i] # l[j]}

\* what detectMarkers returns for a frame: corners[i][0] and ids[i,0];
\* no marker at all is (corners = (), ids = None)
Frames == {f \in SeqsUpTo([id : MarkerIds, quad : Quads], MaxObs) : TRUE}

CornersOf(frame) == [i \in DOMAIN frame |-> frame[i].quad]

IdsOf(frame) == [i \in DOMAIN frame |-> frame[i].id]

\* np.empty leaves the rows as the allocator found them: the model draws the
\* leftover content of every row from these values
GarbageVals == {<<0, 0>>, <<9, 9>>}

GarbageFills(n) == {[s \in 1 .. n |-> g] : g \in GarbageVals}

(***************************************************************************)
(* sort_corners_by_id                                                      *)
(***************************************************************************)
\* id_list.index(id): 0-based position of the first occurrence
ListIndex(id_list, id) ==
  (CHOOSE k \in DOMAIN id_list :
      /\ id_list[k] = id
      /\ \A m \in DOMAIN id_list : id_list[m] = id => k <= m) - 1

\* mutant: every slot of the marker gets corner 0
PutCornersFirstCorner(acc, corner_num, quad) ==
  [scene |-> [s \in DOMAIN acc.scene |->
                 IF s - 1 \in 4 * corner_num .. 4 * corner_num + 3
                 THEN quad[1]
                 ELSE acc.scene[s]],
   use_index |-> [s \in DOMAIN acc.use_index |->
                 IF s - 1 \in 4 * corner_num .. 4 * corner_num + 3
                 THEN TRUE
                 ELSE acc.use_index[s]]]

\* the loop "for j in range(4)": slots 4*corner_num + j of both arrays
PutCorners(acc, corner_num, quad) ==
  [scene |-> [s \in DOMAIN acc.scene |->
                 IF s - 1 \in 4 * corner_num .. 4 * corner_num + 3
                 THEN quad[(s - 1) - 4 * corner_num + 1]
                 ELSE acc.scene[s]],
   use_index |-> [s \in DOMAIN acc.use_index |->
                 IF s - 1 \in 4 * corner_num .. 4 * corner_num + 3
                 THEN TRUE
                 ELSE acc.use_index[s]]]

\* "id in id_list"
InList(id, id_list) == id \in Range(id_list)

\* mutant: an id that is not in the list is filed under the first marker
RECURSIVE SortLoopForeignFirst(_, _, _, _, _)
SortLoopForeignFirst(corners, ids, id_list, i, acc) ==
  IF i > Len(corners) THEN acc
  ELSE SortLoopForeignFirst(corners, ids, id_list, i + 1,
         PutCorners(acc, IF InList(ids[i], id_list) THEN ListIndex(id_list, ids[i]) ELSE 0,
                    corners[i]))

RECURSIVE SortLoop(_, _, _, _, _)
SortLoop(corners, ids, id_list, i, acc) ==
  IF i > Len(corners) THEN acc
  ELSE IF InList(ids[i], id_list)
       THEN SortLoop(corners, ids, id_list, i + 1,
                     PutCorners(acc, ListIndex(id_list, ids[i]), corners[i]))
       ELSE SortLoop(corners, ids, id_list, i + 1, acc)

\* garbage: the content np.empty happened to return
sort_corners_by_id(corners, ids, id_list, garbage) ==
  SortLoop(corners, ids, id_list, 1,
           [scene |-> garbage,
            use_index |-> [s \in 1 .. 4 * Len(id_list) |-> FALSE]])

\* Python's any()
AnyTrue(flags) == \E s \in DOMAIN flags : flags[s]

(***************************************************************************)
(* Poses.  A rotation vector <<0, 0, k>> is a turn of k quarter turns      *)
(* about the z axis (an angle of k * pi/2); a translation is a triple.     *)
(***************************************************************************)
RVecs == {<<0, 0, 0>>, <<0, 0, 1>>}

TVecs == {<<0, 0, 0>>, <<2, 4, 6>>}

\* cv.Rodrigues(rvec): the rotation matrix (rows) of k quarter turns about z
Rodrigues(rvec) ==
  LET k == rvec[3] % 4 IN
  IF k = 0 THEN << <<1, 0, 0>>, <<0, 1, 0>>, <<0, 0, 1>> >>
  ELSE IF k = 1 THEN << <<0, -1, 0>>, <<1, 0, 0>>, <<0, 0, 1>> >>
  ELSE IF k = 2 THEN << <<-1, 0, 0>>, <<0, -1, 0>>, <<0, 0, 1>> >>
  ELSE << <<0, 1, 0>>, <<-1, 0, 0>>, <<0, 0, 1>> >>

\* mutant: the rotation is applied, not undone
MatInvOmitted(R) == R

\* np.linalg.inv of a rotation matrix: its transpose
MatInv(R) == [i \in 1 .. 3 |-> [j \in 1 .. 3 |-> R[j][i]]]

MatVec(R, v) == [i \in 1 .. 3 |-> R[i][1] * v[1] + R[i][2] * v[2] + R[i][3] * v[3]]

VecSub(a, b) == [i \in 1 .. 3 |-> a[i] - b[i]]

reverse_project(point, rvec, tvec) == MatVec(MatInv(Rodrigues(rvec)), VecSub(point, tvec))

(***************************************************************************)
(* ModelDetector.detect and PoseDetector.detect                            *)
(***************************************************************************)
\* parse_aruco_codes: row cnt*4 + i of obj is corner i of marker cnt; the model
\* names the 3D point by <<cnt, i>>
ObjOf(id_list) == [s \in 1 .. 4 * Len(id_list) |-> <<(s - 1) \div 4, (s - 1) % 4>>]

\* numpy boolean-mask indexing arr[mask, :]: the rows whose flag is true, in order
RECURSIVE MaskRows(_, _)
MaskRows(arr, mask) ==
  IF Len(arr) = 0 THEN <<>>
  ELSE LET rest == MaskRows(SubSeq(arr, 1, Len(arr) - 1), SubSeq(mask, 1, Len(mask) - 1))
       IN IF mask[Len(mask)] THEN Append(rest, arr[Len(arr)]) ELSE rest

\* mutant: only the absence of any detection counts
NotFoundIdsOnly(ids, use_index) == ids = None

\* "if ids is None or not any(use_index)"
NotFound(ids, use_index) == ids = None \/ ~AnyTrue(use_index)

NoCall == [called |-> FALSE]

\* the arguments cv.solvePnP gets from ModelDetector.detect (line 36)
ModelPnPArgs(obj, scene, use_index) ==
  [called |-> TRUE, obj |-> MaskRows(obj, use_index), scene |-> MaskRows(scene, use_index)]

\* the arguments cv.solvePnP gets from PoseDetector.detect (line 57)
PosePnPArgs(obj, scene, use_index) ==
  [called |-> TRUE, obj |-> obj, scene |-> scene]

VARIABLES
  map_ids,          \* ModelDetector.list_of_ids
  stylus_ids,       \* PoseDetector.list_of_ids
  frame,            \* the markers detectMarkers finds in the current frame
  det,              \* the last detect call: its matcher result, solver call and return
  model,            \* the map parameters: hotspots and pixels_per_cm
  image_map_color,  \* InteractionPolicy.image_map_color, rows of BGR pixels
  zone_filter,      \* InteractionPolicy.zone_filter
  zone_filter_cnt,  \* InteractionPolicy.zone_filter_cnt
  gest,             \* the last push_gesture call: its z, raw zone, mode and return
  prev_zone_name,   \* CamIOPlayer.prev_zone_name
  start_time,       \* CamIOPlayer.start_time
  sound_files,      \* CamIOPlayer.sound_files, each named by the file it was loaded from
  now,              \* time.time()
  pc,               \* "run", or "crashed" once an exception has left the main loop
  conv,             \* the last convey call: its arguments, the state it saw, what it did
                    \* (in the main loop: the convey call of the last iteration, if any)
  last_trigger,     \* history: the description of the last zone whose sound was played
  call,             \* a call of reverse_project or of the zone lookup: arguments and return
  loop              \* the last iteration of the main loop: the stage it ended at

locVars == <<map_ids, stylus_ids, frame, det>>

filterVars == <<model, image_map_color, zone_filter, zone_filter_cnt, gest>>

playerVars == <<prev_zone_name, start_time, sound_files, now, pc, conv, last_trigger>>

auxVars == <<call, loop>>

vars == <<map_ids, stylus_ids, frame, det, model, image_map_color, zone_filter,
          zone_filter_cnt, gest, prev_zone_name, start_time, sound_files, now, pc,
          conv, last_trigger, call, loop>>

DetIdle == [op |-> "none"]

\* the body of ModelDetector.detect on the markers f: what the matcher built, what
\* the solver was given and the triple returned; garbage is what np.empty left,
\* <<retval, rvec, tvec>> the solver's answer
ModelDetectCall(f, garbage, retval, rvec, tvec) ==
  LET m == sort_corners_by_id(CornersOf(f), IdsOf(f), map_ids, garbage) IN
  IF NotFound(IdsOf(f), m.use_index)
  THEN [op |-> "model", scene |-> m.scene, use_index |-> m.use_index,
        pnp |-> NoCall, ret |-> <<FALSE, None, None>>]
  ELSE [op |-> "model", scene |-> m.scene, use_index |-> m.use_index,
        pnp |-> ModelPnPArgs(ObjOf(map_ids), m.scene, m.use_index),
        ret |-> <<retval, rvec, tvec>>]

\* ModelDetector.detect(frame); the solver's answer is the solver's choice
ModelDetect ==
  /\ det.op = "none"
  /\ \E garbage \in GarbageFills(4 * Len(map_ids)), retval \in BOOLEAN,
        rvec \in RVecs, tvec \in TVecs :
       det' = ModelDetectCall(frame, garbage, retval, rvec, tvec)
  /\ UNCHANGED <<map_ids, stylus_ids, frame, filterVars, playerVars, auxVars>>

\* the body of PoseDetector.detect on the markers f; retval and tvec_aruco are the
\* solver's answer, of which the code reads tvec_aruco only
PoseDetectCall(f, rvec_model, tvec_model, garbage, retval, tvec_aruco) ==
  LET m == sort_corners_by_id(CornersOf(f), IdsOf(f), stylus_ids, garbage) IN
  IF NotFound(IdsOf(f), m.use_index)
  THEN [op |-> "pose", scene |-> m.scene, use_index |-> m.use_index,
        pnp |-> NoCall, ret |-> None]
  ELSE [op |-> "pose", scene |-> m.scene, use_index |-> m.use_index,
        pnp |-> PosePnPArgs(ObjOf(stylus_ids), m.scene, m.use_index),
        retval |-> retval,
        ret |-> reverse_project(tvec_aruco, rvec_model, tvec_model)]

\* PoseDetector.detect(frame, rvec_model, tvec_model)
PoseDetect(rvec_model, tvec_model) ==
  /\ det.op = "none"
  /\ \E garbage \in GarbageFills(4 * Len(stylus_ids)), retval \in BOOLEAN,
        tvec_aruco \in TVecs :
       det' = PoseDetectCall(frame, rvec_model, tvec_model, garbage, retval, tvec_aruco)
  /\ UNCHANGED <<map_ids, stylus_ids, frame, filterVars, playerVars, auxVars>>

(***************************************************************************)
(* InteractionPolicy: get_zone, match_color, get_dict_idx_from_color,      *)
(* the ring buffer and its mode.                                           *)
(***************************************************************************)
\* Python's int() of the quotient a / b, b > 0: truncation towards zero
TruncDiv(a, b) == IF a >= 0 THEN a \div b ELSE -((-a) \div b)

\* the scalar 0 get_zone returns outside the image: an array with no axis of length 3
ScalarZero == <<0>>

\* position[i] * pixels_per_cm, position[i] being point[i + 1] / UnitsPerCm centimetres
get_zone(point_of_interest, img_map, pixels_per_cm) ==
  LET x == TruncDiv(point_of_interest[1] * pixels_per_cm, UnitsPerCm)
      y == TruncDiv(point_of_interest[2] * pixels_per_cm, UnitsPerCm)
  IN IF 0 <= x /\ x < Len(img_map[1]) /\ 0 <= y /\ y < Len(img_map)
     THEN img_map[y + 1][x + 1]
     ELSE ScalarZero

\* rgb_color_list[::-1]
Reversed(l) == [i \in DOMAIN l |-> l[Len(l) + 1 - i]]

\* np.array_equal: same shape and same elements
match_color(rgb_color_list, bgr_color_np_array) ==
  /\ Len(rgb_color_list) = Len(bgr_color_np_array)
  /\ Reversed(rgb_color_list) = bgr_color_np_array

get_dict_idx_from_color(list_of_dicts, color) ==
  IF \E i \in DOMAIN list_of_dicts : match_color(list_of_dicts[i].color, color)
  THEN (CHOOSE i \in DOMAIN list_of_dicts :
          /\ match_color(list_of_dicts[i].color, color)
          /\ \A k \in DOMAIN list_of_dicts :
               match_color(list_of_dicts[k].color, color) => i <= k) - 1
  ELSE -1

CountOf(buf, v) == Cardinality({i \in DOMAIN buf : buf[i] = v})

\* np.unique: the distinct values in ascending order
RECURSIVE SortedSeq(_)
SortedSeq(S) ==
  IF S = {} THEN <<>>
  ELSE LET m == CHOOSE v \in S : \A w \in S : v <= w
       IN <<m>> \o SortedSeq(S \ {m})

\* mutant: a score with an equal count replaces the most frequent one too
ModeRoundLastWins(best, score, count) ==
  IF count >= best.count THEN [mode |-> score, count |-> count] ELSE best

\* one round of the loop of scipy.stats.mode: a score replaces the most
\* frequent one when its count is strictly larger
ModeRound(best, score, count) ==
  IF count > best.count THEN [mode |-> score, count |-> count] ELSE best

RECURSIVE ModeLoop(_, _, _, _)
ModeLoop(buf, scores, i, best) ==
  IF i > Len(scores) THEN best
  ELSE ModeLoop(buf, scores, i + 1, ModeRound(best, scores[i], CountOf(buf, scores[i])))

\* stats.mode(a).mode[0]
StatsMode(buf) == ModeLoop(buf, SortedSeq(Range(buf)), 1, [mode |-> 0, count |-> 0]).mode

\* mutant: the cursor is not advanced
NextCntStuck(cnt) == cnt

\* "(self.zone_filter_cnt + 1) % self.zone_filter_size"
NextCnt(cnt) == (cnt + 1) % zone_filter_size

\* mutant: a standoff of exactly 2.0 still counts as touching
GateInclusive(z, zone) == IF Abs(z) <= ZGate THEN zone ELSE -1

\* "if np.abs(position[2]) < 2.0: return zone, else: return -1"
Gate(z, zone) == IF Abs(z) < ZGate THEN zone ELSE -1

\* mutant: the sample goes into the slot after the cursor
WriteSlotAfterCursor(buf, cnt, raw) == [buf EXCEPT ![((cnt + 1) % Len(buf)) + 1] = raw]

\* "self.zone_filter[self.zone_filter_cnt] = ..."
WriteSlot(buf, cnt, raw) == [buf EXCEPT ![cnt + 1] = raw]

\* the last (at most n) elements of a sequence with one more appended
LastN(seq, v, n) ==
  LET all == Append(seq, v) IN
  IF Len(all) <= n THEN all ELSE SubSeq(all, Len(all) - n + 1, Len(all))

\* history kept with the last call: run, the number of consecutive calls with this
\* raw zone (up to the buffer size); calls, the number of calls so far modulo the
\* buffer size; last, the raw zones of the latest calls (as many as the buffer holds)
GestIdle ==
  [op |-> "none", z |-> 0, raw |-> -1, mode |-> -1, ret |-> -1, run |-> 0,
   calls |-> 0, last |-> <<>>]

\* the body of push_gesture: the buffer and the cursor it leaves, and the call's
\* record with the value returned (ret)
PushGestureCall(position) ==
  LET zone_color == get_zone(position, image_map_color, model.pixels_per_cm)
      raw == get_dict_idx_from_color(model.hotspots, zone_color)
      filter == WriteSlot(zone_filter, zone_filter_cnt, raw)
      zone == StatsMode(filter)
  IN [zone_filter |-> filter,
      zone_filter_cnt |-> NextCnt(zone_filter_cnt),
      gest |-> [op |-> "push", z |-> position[3], raw |-> raw, mode |-> zone,
                ret |-> Gate(position[3], zone),
                run |-> IF gest.op = "push" /\ gest.raw = raw
                        THEN Min2(gest.run + 1, zone_filter_size) ELSE 1,
                calls |-> (gest.calls + 1) % zone_filter_size,
                last |-> LastN(gest.last, raw, zone_filter_size)]]

\* InteractionPolicy.push_gesture(position)
PushGesture(position) ==
  \E c \in {PushGestureCall(position)} :
     /\ zone_filter' = c.zone_filter
     /\ zone_filter_cnt' = c.zone_filter_cnt
     /\ gest' = c.gest
     /\ UNCHANGED <<model, image_map_color, locVars, playerVars, auxVars>>

(***************************************************************************)
(* CamIOPlayer                                                             *)
(***************************************************************************)
\* the loop of __init__: the sounds of the hotspots whose file exists, in order
RECURSIVE LoadSounds(_, _)
LoadSounds(hotspots, files) ==
  IF Len(hotspots) = 0 THEN <<>>
  ELSE LET rest == LoadSounds(SubSeq(hotspots, 1, Len(hotspots) - 1), files)
           h == hotspots[Len(hotspots)]
       IN IF h.audioDescription \in files THEN Append(rest, h.audioDescription) ELSE rest

\* mutant: the last zone's name is not consulted
NameDiffersAlways(prev, zone_name) == TRUE

\* "self.prev_zone_name != zone_name"
NameDiffers(prev, zone_name) == prev # zone_name

\* mutant: an elapsed time of exactly 0.5 s counts
CooledDownInclusive(t, start) == t - start >= Cooldown

\* "time.time() - self.start_time > 0.5"
CooledDown(t, start) == t - start > Cooldown

ConvIdle == [op |-> "none"]

\* Python's seq[i] on a list: a negative index counts from the end
PyInRange(seq, i) == -Len(seq) <= i /\ i < Len(seq)

PyItem(seq, i) == IF i < 0 THEN seq[Len(seq) + i + 1] ELSE seq[i + 1]

\* the body of CamIOPlayer.convey(zone): what it does to the player; the backend
\* decides whether play() raises, and the clock may move on between the two readings
\* of time.time()
ConveyBody(zone) ==
  LET zone_name == PyItem(model.hotspots, zone).textDescription
      seen == [op |-> "convey", zone |-> zone, name |-> zone_name,
               prev |-> prev_zone_name, elapsed |-> now - start_time,
               start |-> start_time, trigger |-> last_trigger]
  IN IF NameDiffers(prev_zone_name, zone_name) /\ CooledDown(now, start_time)
     THEN IF ~PyInRange(sound_files, zone)
          THEN \* sound_files[zone] raises IndexError, which nothing catches
               /\ conv' = seen @@ [played |-> NoName, play_raised |-> FALSE, raised |-> TRUE]
               /\ pc' = "crashed"
               /\ UNCHANGED <<prev_zone_name, start_time, now, last_trigger>>
          ELSE \E play_raised \in BOOLEAN, d \in 0 .. 1 :
               /\ now + d <= MaxTime
               /\ conv' = seen @@ [played |-> PyItem(sound_files, zone),
                                   play_raised |-> play_raised, raised |-> FALSE]
               /\ now' = now + d
               /\ start_time' = now + d
               /\ prev_zone_name' = zone_name
               /\ last_trigger' = zone_name
               /\ UNCHANGED pc
     ELSE /\ conv' = seen @@ [played |-> NoName, play_raised |-> FALSE, raised |-> FALSE]
          /\ UNCHANGED <<prev_zone_name, start_time, now, pc, last_trigger>>

\* CamIOPlayer.convey(zone) called on its own
Convey(zone) ==
  /\ pc = "run"
  /\ ConveyBody(zone)
  /\ UNCHANGED <<sound_files, locVars, filterVars, auxVars>>

\* the clock between two calls
Tick ==
  /\ pc = "run"
  /\ now < MaxTime
  /\ now' = now + 1
  /\ UNCHANGED <<prev_zone_name, start_time, sound_files, pc, conv, last_trigger,
                 locVars, filterVars, auxVars>>

(***************************************************************************)
(* Construction: the state after ModelDetector, PoseDetector,              *)
(* InteractionPolicy and CamIOPlayer have been built from the parameter    *)
(* files; the clock reads 0 when the player is built.                      *)
(***************************************************************************)
CallIdle == [op |-> "none"]

\* before the first iteration of the main loop.  stage: where the last iteration
\* ended ("no_map", "no_pointer", "classified" when push_gesture returned no zone,
\* "dispatched" when convey was called).  History: pushes, the number of
\* push_gesture calls; lifted, the pointer left the surface or the picture since
\* the last sound was played; retouch, the value of lifted when the last iteration
\* began
LoopIdle == [stage |-> "none", pushes |-> 0, lifted |-> FALSE, retouch |-> FALSE]

Hotspot(c, text, audio) == [color |-> c, textDescription |-> text, audioDescription |-> audio]

Bgr(c) == Reversed(c)

Red == <<200, 10, 20>>

Green == <<10, 200, 30>>

Blue == <<30, 20, 200>>

White == <<255, 255, 255>>

Built(m, img, files, mids, sids, f) ==
  /\ map_ids = mids
  /\ stylus_ids = sids
  /\ frame = f
  /\ det = DetIdle
  /\ model = m
  /\ image_map_color = img
  /\ zone_filter = [i \in 1 .. zone_filter_size |-> -1]
  /\ zone_filter_cnt = 0
  /\ gest = GestIdle
  /\ prev_zone_name = ""
  /\ start_time = 0
  /\ sound_files = LoadSounds(m.hotspots, files)
  /\ now = 0
  /\ pc = "run"
  /\ conv = ConvIdle
  /\ last_trigger = NoName
  /\ loop = LoopIdle

\* ... with no function call under study
Constructed(m, img, files, mids, sids, f) ==
  /\ Built(m, img, files, mids, sids, f)
  /\ call = CallIdle

DefaultLayout == <<0>>

DefaultModel == [hotspots |-> <<Hotspot(Red, "red zone", "red.wav")>>, pixels_per_cm |-> 1]

DefaultImage == << <<Bgr(Red), Bgr(White)>> >>

AudioFiles(m) == {m.hotspots[i].audioDescription : i \in DOMAIN m.hotspots}

(***************************************************************************)
(* SpecLocate: one frame seen by one of the two detectors.                 *)
(***************************************************************************)
InitLocate ==
  \E l \in Layouts, f \in Frames :
     \/ Constructed(DefaultModel, DefaultImage, AudioFiles(DefaultModel), l, DefaultLayout, f)
     \/ Constructed(DefaultModel, DefaultImage, AudioFiles(DefaultModel), DefaultLayout, l, f)

NextLocate ==
  \/ ModelDetect
  \/ \E rvec_model \in RVecs, tvec_model \in TVecs : PoseDetect(rvec_model, tvec_model)

SpecLocate == InitLocate /\ [][NextLocate]_vars

(***************************************************************************)
(* Claims about the matcher and the two detectors, under SpecLocate.       *)
(***************************************************************************)
\* the layout the last detect call matched against
DetLayout == IF det.op = "model" THEN map_ids ELSE stylus_ids

\* the last detect call's "none" result
DetNone == IF det.op = "model" THEN <<FALSE, None, None>> ELSE None

\* S: the layout's ids observed in the frame
ObservedIds(id_list) == {id \in Range(id_list) : \E i \in DOMAIN frame : frame[i].id = id}

\* the observation of id that the frame lists last
LastObservation(id) ==
  CHOOSE i \in DOMAIN frame : frame[i].id = id /\ \A k \in DOMAIN frame : frame[k].id = id => k <= i

NumValid(use_index) == Cardinality({s \in DOMAIN use_index : use_index[s]})

\* C1: after sort_corners_by_id on a layout and a frame, exactly 4*|S| mask entries
\* are true, S being the layout's ids seen in the frame; they are the slots
\* 4k..4k+3 of every seen marker at layout position k; and slot 4k+j holds corner j
\* of that marker's observation.
C1_MaskAndPoints ==
  det.op # "none" =>
    LET id_list == DetLayout
        S == ObservedIds(id_list)
    IN /\ NumValid(det.use_index) = 4 * Cardinality(S)
       /\ \A k \in 0 .. Len(id_list) - 1, j \in 0 .. 3 :
            /\ det.use_index[4 * k + j + 1] <=> id_list[k + 1] \in S
            /\ id_list[k + 1] \in S =>
                 det.scene[4 * k + j + 1] = frame[LastObservation(id_list[k + 1])].quad[j + 1]

\* a two-marker layout of which only the second marker is seen, after a foreign one
C1_Witness ==
  /\ det.op = "model"
  /\ Len(map_ids) = 2
  /\ Len(frame) = 2
  /\ frame[1].id \notin Range(map_ids)
  /\ frame[2].id = map_ids[2]
  /\ det.use_index = <<FALSE, FALSE, FALSE, FALSE, TRUE, TRUE, TRUE, TRUE>>
  /\ det.scene[6] = frame[2].quad[2]

\* the frame without the observations whose id is not in the layout
KnownOnly(id_list) == SelectSeq(frame, LAMBDA o : o.id \in Range(id_list))

\* C2: observations whose id is not in the layout change nothing: the mask and the
\* valid scene points are those of the frame without them; and when no id of the
\* layout is seen no mask entry is true, the solver is not called and the detector
\* returns its "none" result.
C2_ForeignIdsIgnored ==
  det.op # "none" =>
    LET id_list == DetLayout
        known == KnownOnly(id_list)
        m == sort_corners_by_id(CornersOf(known), IdsOf(known), id_list, det.scene)
    IN /\ det.use_index = m.use_index
       /\ \A s \in DOMAIN det.use_index : det.use_index[s] => det.scene[s] = m.scene[s]
       /\ Len(known) = 0 =>
            /\ ~AnyTrue(det.use_index)
            /\ ~det.pnp.called
            /\ det.ret = DetNone

\* a frame with a foreign marker first and the layout's only marker second
C2_Witness ==
  /\ det.op = "model"
  /\ Len(frame) = 2
  /\ frame[1].id \notin Range(map_ids)
  /\ frame[2].id \in Range(map_ids)
  /\ det.pnp.called
  /\ det.use_index = <<TRUE, TRUE, TRUE, TRUE>>

\* C3: whenever a detector calls the solver, the rows it hands over are exactly the
\* rows whose validity flag is true.
C3_SolverGetsValidRowsOnly ==
  (det.op # "none" /\ det.pnp.called) =>
    /\ Len(det.pnp.obj) = NumValid(det.use_index)
    /\ Len(det.pnp.scene) = NumValid(det.use_index)
    /\ Range(det.pnp.obj) = {ObjOf(DetLayout)[s] : s \in {t \in DOMAIN det.use_index : det.use_index[t]}}

\* C4: with fewer than 4 valid correspondences the solver is not called and the
\* detector returns its "none" result.
C4_TooFewMeansNone ==
  (det.op # "none" /\ NumValid(det.use_index) < 4) =>
    /\ ~det.pnp.called
    /\ det.ret = DetNone

\* the pointer detector on a frame that shows markers, none of them the stylus's
C4_Witness ==
  /\ det.op = "pose"
  /\ Len(frame) >= 1
  /\ NumValid(det.use_index) = 0
  /\ ~det.pnp.called
  /\ det.ret = None

\* C13: when the solver reports failure for the stylus layout, the pointer detector
\* returns none, as it does when no stylus marker is seen.
C13_SolverFailureMeansNoPointer ==
  (det.op = "pose" /\ det.pnp.called /\ ~det.retval) => det.ret = None

(***************************************************************************)
(* SpecFilter: a run of push_gesture calls on one InteractionPolicy, for a *)
(* map with one zone on a white background and for a map of two zones.     *)
(***************************************************************************)
OneZoneModel == [hotspots |-> <<Hotspot(Red, "red zone", "red.wav")>>, pixels_per_cm |-> 1]

OneZoneImage == << <<Bgr(Red), Bgr(White)>> >>

TwoZoneModel ==
  [hotspots |-> <<Hotspot(Red, "red zone", "red.wav"), Hotspot(Green, "green zone", "green.wav")>>,
   pixels_per_cm |-> 1]

TwoZoneImage == << <<Bgr(Green), Bgr(Red)>> >>

\* pointer positions over the first and over the second pixel of the image, on the
\* plane, below and at the 2.0 cm gate (either side of the plane), and above it
FilterPositions == {<<x, 0, z>> : x \in {1, 2}, z \in {-ZGate, 0, ZGate - 1, ZGate, ZGate + 1}}

InitFilter ==
  \/ Constructed(OneZoneModel, OneZoneImage, AudioFiles(OneZoneModel),
                 DefaultLayout, DefaultLayout, <<>>)
  \/ Constructed(TwoZoneModel, TwoZoneImage, AudioFiles(TwoZoneModel),
                 DefaultLayout, DefaultLayout, <<>>)

NextFilter == \E position \in FilterPositions : PushGesture(position)

SpecFilter == InitFilter /\ [][NextFilter]_vars

(***************************************************************************)
(* Claims about the zone filter, under SpecFilter.                         *)
(***************************************************************************)
\* C5: a call with |z| >= 2.0 returns -1, whatever the mode of the buffer is.
C5_HoverReturnsMinusOne ==
  (gest.op = "push" /\ Abs(gest.z) >= ZGate) => gest.ret = -1

\* a call at exactly 2.0 cm while the buffer's mode is a zone
C5_Witness ==
  /\ gest.op = "push"
  /\ gest.z = ZGate
  /\ gest.mode = 1
  /\ gest.ret = -1

\* C6: after 10 consecutive calls with the same raw zone id the mode is that id,
\* and the 10th call returns it when |z| < 2.0.
C6_TenInARow ==
  (gest.op = "push" /\ gest.run >= zone_filter_size) =>
    /\ gest.mode = gest.raw
    /\ Abs(gest.z) < ZGate => gest.ret = gest.raw

\* ten calls over the green zone after the buffer had filled with the red zone
C6_Witness ==
  /\ gest.op = "push"
  /\ gest.run = zone_filter_size
  /\ gest.raw = 1
  /\ zone_filter_cnt = 3
  /\ gest.z = ZGate - 1
  /\ gest.ret = 1

\* the values with the highest count in the buffer
Tied(buf) == {v \in Range(buf) : \A w \in Range(buf) : CountOf(buf, w) <= CountOf(buf, v)}

\* the tied value met first when the buffer is read from slot 0
FirstByIndex(buf) ==
  buf[CHOOSE i \in DOMAIN buf : buf[i] \in Tied(buf) /\ \A k \in 1 .. i - 1 : buf[k] \notin Tied(buf)]

\* the buffer from its oldest entry (the one at the cursor) to its newest
ByAge(buf, cnt) == [i \in DOMAIN buf |-> buf[((cnt + i - 1) % Len(buf)) + 1]]

\* C7 as claimed: on a tie the mode is the tied value met first in the buffer,
\* read from slot 0 or read from the oldest entry.
C7_FirstEncounteredWins ==
  gest.op = "push" =>
    \/ gest.mode = FirstByIndex(zone_filter)
    \/ gest.mode = FirstByIndex(ByAge(zone_filter, zone_filter_cnt))

\* C7 as amended: the mode is the smallest of the values tied for the highest count.
C7_SmallestTiedWins ==
  gest.op = "push" =>
    /\ gest.mode \in Tied(zone_filter)
    /\ \A v \in Tied(zone_filter) : gest.mode <= v

\* five entries of zone 1 in slots 0..4, the oldest, and five of zone 0: the mode is 0
C7_Witness ==
  /\ gest.op = "push"
  /\ zone_filter = <<1, 1, 1, 1, 1, 0, 0, 0, 0, 0>>
  /\ zone_filter_cnt = 0
  /\ gest.mode = 0

(***************************************************************************)
(* SpecDispatch: a run of convey calls on one CamIOPlayer while the clock  *)
(* advances.  The map has three hotspots, the first and the third with the *)
(* same text description; any of the three audio files may be missing when *)
(* the player is built.                                                    *)
(***************************************************************************)
ThreeZoneModel ==
  [hotspots |-> <<Hotspot(Red, "red zone", "red.wav"),
                  Hotspot(Green, "green zone", "green.wav"),
                  Hotspot(Blue, "red zone", "red2.wav")>>,
   pixels_per_cm |-> 1]

ThreeZoneImage == << <<Bgr(Red), Bgr(Green), Bgr(Blue)>> >>

InitDispatch ==
  \E files \in SUBSET AudioFiles(ThreeZoneModel) :
     Constructed(ThreeZoneModel, ThreeZoneImage, files, DefaultLayout, DefaultLayout, <<>>)

NextDispatch ==
  \/ \E zone \in 0 .. Len(model.hotspots) - 1 : Convey(zone)
  \/ Tick

SpecDispatch == InitDispatch /\ [][NextDispatch]_vars

(***************************************************************************)
(* Claims about the dispatcher, under SpecDispatch.                        *)
(***************************************************************************)
\* the last convey call asked the backend to play a sound
Triggered == conv.op = "convey" /\ conv.played # NoName

\* C8: a convey call that triggers playback is for a zone whose description differs
\* from that of the zone of the previous trigger: between two triggers for the same
\* description there is a trigger for another one.
C8_NoRepeatForSameDescription ==
  Triggered => conv.name # conv.trigger

\* a call for the third hotspot, long after the first hotspot (same description) was
\* played, triggers nothing
C8_Witness ==
  /\ conv.op = "convey"
  /\ conv.zone = 2
  /\ conv.trigger = "red zone"
  /\ conv.elapsed > Cooldown
  /\ conv.played = NoName
  /\ ~conv.raised
  /\ sound_files = <<"red.wav", "green.wav", "red2.wav">>

\* the dispatch state after the last convey call is the one the call found
StateKept == prev_zone_name = conv.prev /\ start_time = conv.start

\* the dispatch state after the last convey call names the call's zone and a time
\* not before the call
StateUpdated == prev_zone_name = conv.name /\ start_time >= conv.start + conv.elapsed

\* C9 as claimed: a call triggers playback and updates the dispatch state if and
\* only if the description differs from the last one and at least 0.5 s have
\* elapsed; otherwise it requests nothing and changes nothing.
C9_AtLeastHalfASecond ==
  conv.op = "convey" =>
    LET due == conv.name # conv.prev /\ conv.elapsed >= Cooldown
    IN /\ due => (Triggered /\ StateUpdated)
       /\ ~due => (~Triggered /\ StateKept)

\* C9 as amended: a call triggers playback and updates the dispatch state if and
\* only if the description differs from the last one, more than 0.5 s have elapsed
\* and sound_files has an entry at the zone's index; with the first two and without
\* the third the call raises IndexError; in every case but the first the call
\* requests nothing and changes nothing.
C9_MoreThanHalfASecond ==
  conv.op = "convey" =>
    LET due == conv.name # conv.prev /\ conv.elapsed > Cooldown
        loaded == conv.zone < Len(sound_files)
    IN /\ (due /\ loaded) => (Triggered /\ StateUpdated /\ ~conv.raised)
       /\ (due /\ ~loaded) => (~Triggered /\ StateKept /\ conv.raised)
       /\ ~due => (~Triggered /\ StateKept /\ ~conv.raised)

\* a call for a new description exactly 0.5 s after the last trigger does nothing
C9_Witness ==
  /\ conv.op = "convey"
  /\ conv.prev = "red zone"
  /\ conv.name = "green zone"
  /\ conv.elapsed = Cooldown
  /\ conv.played = NoName
  /\ prev_zone_name = "red zone"
  /\ start_time = conv.start

\* C10: a convey call returns normally, whether or not the zone's audio file was
\* missing when the player was built and whether or not play() raises.
C10_ConveyReturns ==
  conv.op = "convey" => (~conv.raised /\ pc = "run")

\* the last convey call's playback attempt failed: the backend raised on play(), or
\* the sound list has no entry for the zone
AttemptFailed == conv.op = "convey" /\ (conv.play_raised \/ conv.raised)

\* C11: after a convey call whose playback attempt failed, the last zone name is
\* that of the attempted zone (and so later calls for that zone request nothing).
C11_FailedAttemptIsRecorded ==
  AttemptFailed => (prev_zone_name = conv.name /\ pc = "run")

\* C15: a convey call that triggers playback for zone i plays the sound loaded from
\* the audioDescription of hotspot i.
C15_PlaysTheZonesOwnSound ==
  Triggered => conv.played = model.hotspots[conv.zone + 1].audioDescription

\* C19: while nothing has been played since the player was built, a convey call no
\* more than 0.5 s after construction requests nothing and changes nothing, and a
\* call more than 0.5 s after construction triggers playback.
C19_FirstEntryAfterHalfASecond ==
  (conv.op = "convey" /\ conv.trigger = NoName /\ conv.prev = "" /\ conv.start = 0) =>
    /\ conv.elapsed <= Cooldown => (~Triggered /\ StateKept)
    /\ conv.elapsed > Cooldown => Triggered

(***************************************************************************)
(* SpecProject: reverse_project applied to one pointer translation and one *)
(* map pose.                                                               *)
(***************************************************************************)
ProjPoints == {<<a, b, c>> : a \in -1 .. 1, b \in -1 .. 1, c \in -1 .. 1}

\* the four quarter turns about z
ProjRVecs == {<<0, 0, k>> : k \in 0 .. 3}

ProjTVecs == TVecs \cup {<<-1, 3, 0>>}

InitProject ==
  /\ Built(DefaultModel, DefaultImage, AudioFiles(DefaultModel), DefaultLayout, DefaultLayout, <<>>)
  /\ \E point \in ProjPoints, rvec \in ProjRVecs, tvec \in ProjTVecs :
       call = [op |-> "args", point |-> point, rvec |-> rvec, tvec |-> tvec]

\* reverse_project(point, rvec, tvec)
ReverseProject ==
  /\ call.op = "args"
  /\ call' = [call EXCEPT !.op = "reverse_project"] @@
             [ret |-> reverse_project(call.point, call.rvec, call.tvec)]
  /\ UNCHANGED <<locVars, filterVars, playerVars, loop>>

NextProject == ReverseProject

SpecProject == InitProject /\ [][NextProject]_vars

VecAdd(a, b) == [i \in 1 .. 3 |-> a[i] + b[i]]

IdentityPose(rvec, tvec) == rvec = <<0, 0, 0>> /\ tvec = <<0, 0, 0>>

\* C14: the position reverse_project returns is R^-1 (point - T): rotated by R and
\* moved by T it is the point again; for the identity pose it is the point itself.
C14_ReverseProjectInvertsThePose ==
  call.op = "reverse_project" =>
    /\ VecAdd(MatVec(Rodrigues(call.rvec), call.ret), call.tvec) = call.point
    /\ IdentityPose(call.rvec, call.tvec) => call.ret = call.point

C14_Witness ==
  /\ call.op = "reverse_project"
  /\ IdentityPose(call.rvec, call.tvec)
  /\ call.point = <<1, -1, 1>>
  /\ call.ret = <<1, -1, 1>>

\* a quarter turn and a shift: the answer is not the point
C14_WitnessTurned ==
  /\ call.op = "reverse_project"
  /\ call.rvec = <<0, 0, 1>>
  /\ call.tvec = <<2, 4, 6>>
  /\ call.point = <<1, 0, 1>>
  /\ call.ret = <<-4, 1, -5>>

(***************************************************************************)
(* SpecZone: the functions get_zone and get_dict_idx_from_color applied to  *)
(* one position over one map.                                              *)
(***************************************************************************)
Black == <<0, 0, 0>>

\* a map with a black hotspot and two hotspots of one colour, at one and at two
\* pixels per centimetre
BlackZoneModel(ppc) ==
  [hotspots |-> <<Hotspot(Black, "black zone", "black.wav"),
                  Hotspot(Red, "red zone", "red.wav"),
                  Hotspot(Red, "red zone again", "red2.wav")>>,
   pixels_per_cm |-> ppc]

BlackZoneImage == << <<Bgr(Red), Bgr(Black)>>, <<Bgr(White), Bgr(Green)>> >>

\* x and y from 1.5 cm before the image to beyond its far edges, z on the surface
ZonePositions == {<<x, y, 0>> : x \in -3 .. 5, y \in -3 .. 5}

InitZone ==
  \E ppc \in 1 .. 2, position \in ZonePositions :
     /\ Built(BlackZoneModel(ppc), BlackZoneImage, AudioFiles(BlackZoneModel(ppc)),
              DefaultLayout, DefaultLayout, <<>>)
     /\ call = [op |-> "args", position |-> position]

\* get_dict_idx_from_color(hotspots, get_zone(position, img_map, pixels_per_cm)):
\* the two functions applied one after the other, as push_gesture composes them;
\* neither writes anything, the result is kept with the call
ZoneLookup ==
  /\ call.op = "args"
  /\ LET zone_color == get_zone(call.position, image_map_color, model.pixels_per_cm)
     IN call' = [op |-> "zone_lookup", position |-> call.position, color |-> zone_color,
                 raw |-> get_dict_idx_from_color(model.hotspots, zone_color)]
  /\ UNCHANGED <<locVars, filterVars, playerVars, loop>>

NextZone == ZoneLookup

SpecZone == InitZone /\ [][NextZone]_vars

\* the pixel coordinate of a position is position * pixels_per_cm / UnitsPerCm; it
\* lies in the image when it is at least 0 and less than the width (height)
InImage(position) ==
  /\ 0 <= position[1] * model.pixels_per_cm
  /\ position[1] * model.pixels_per_cm < Len(image_map_color[1]) * UnitsPerCm
  /\ 0 <= position[2] * model.pixels_per_cm
  /\ position[2] * model.pixels_per_cm < Len(image_map_color) * UnitsPerCm

\* the pixel under a position in the image
PixelUnder(position) ==
  image_map_color[(position[2] * model.pixels_per_cm) \div UnitsPerCm + 1]
                 [(position[1] * model.pixels_per_cm) \div UnitsPerCm + 1]

\* hotspot i (from 0) has the colour of the BGR pixel
HasColour(i, pixel) == model.hotspots[i + 1].color = <<pixel[3], pixel[2], pixel[1]>>

FirstWithColour(raw, pixel) ==
  IF \E i \in 0 .. Len(model.hotspots) - 1 : HasColour(i, pixel)
  THEN /\ raw \in 0 .. Len(model.hotspots) - 1
       /\ HasColour(raw, pixel)
       /\ \A i \in 0 .. raw - 1 : ~HasColour(i, pixel)
  ELSE raw = -1

\* C17: a position whose pixel coordinates lie outside the image has raw zone id -1,
\* also just below 0 and also when a hotspot is black; a position inside has the
\* index of the first hotspot with exactly the pixel's colour, or -1 if there is none.
C17_OutsideIsNoZone ==
  call.op = "zone_lookup" =>
    IF InImage(call.position)
    THEN FirstWithColour(call.raw, PixelUnder(call.position))
    ELSE call.raw = -1

\* what the code does: the coordinates are truncated towards zero before the test
InImageTruncated(position) ==
  /\ -UnitsPerCm < position[1] * model.pixels_per_cm
  /\ position[1] * model.pixels_per_cm < Len(image_map_color[1]) * UnitsPerCm
  /\ -UnitsPerCm < position[2] * model.pixels_per_cm
  /\ position[2] * model.pixels_per_cm < Len(image_map_color) * UnitsPerCm

\* beyond one pixel before the image and beyond its far edges the raw zone id is -1,
\* black hotspot or not; inside the image it is the first hotspot of the pixel's colour
C17_FarOutsideIsNoZone ==
  call.op = "zone_lookup" =>
    /\ InImage(call.position) => FirstWithColour(call.raw, PixelUnder(call.position))
    /\ ~InImageTruncated(call.position) => (call.raw = -1 /\ call.color = ScalarZero)

\* slot (from 1) written by the call made j calls ago (j = 1 is the latest call)
SlotOfCallAgo(j) == ((zone_filter_cnt + zone_filter_size - j) % zone_filter_size) + 1

\* the buffer has 10 slots, the cursor lies in 0 .. 9 and is the number of calls
\* modulo 10, the latest min(n, 10) raw zones are in the slots behind the cursor,
\* and every other slot is still -1
RingBufferShape ==
  /\ Len(zone_filter) = 10
  /\ zone_filter_cnt \in 0 .. 9
  /\ zone_filter_cnt = gest.calls
  /\ Len(gest.last) <= 10
  /\ \A j \in 1 .. Len(gest.last) :
       zone_filter[SlotOfCallAgo(j)] = gest.last[Len(gest.last) + 1 - j]
  /\ \A i \in 1 .. 10 :
       (\A j \in 1 .. Len(gest.last) : SlotOfCallAgo(j) # i) => zone_filter[i] = -1

\* a step that changes the buffer or the cursor is a push_gesture call that writes
\* its raw zone into the slot at the cursor and nothing else, and moves the cursor on
RingBufferStep ==
  (zone_filter' # zone_filter \/ zone_filter_cnt' # zone_filter_cnt \/ gest' # gest) =>
     /\ gest'.op = "push"
     /\ zone_filter' = [zone_filter EXCEPT ![zone_filter_cnt + 1] = gest'.raw]
     /\ zone_filter_cnt' = (zone_filter_cnt + 1) % 10

\* C16: the zone filter is a ring of 10 slots, all -1 and cursor 0 at construction;
\* every push_gesture call, gated or not, writes its raw zone into the slot at the
\* cursor only and advances the cursor modulo 10, so after n calls the cursor is
\* n mod 10 and the buffer holds the last min(n, 10) raw zones; it is never reset.
C16_RingBuffer ==
  /\ zone_filter = [i \in 1 .. 10 |-> -1] /\ zone_filter_cnt = 0
  /\ []RingBufferShape
  /\ [][RingBufferStep]_vars

\* the cursor has wrapped around, and the call just made was gated to -1 while its
\* raw zone went into the slot behind the cursor
C16_Witness ==
  /\ gest.op = "push"
  /\ Len(gest.last) = 10
  /\ zone_filter_cnt = 3
  /\ Abs(gest.z) >= ZGate
  /\ gest.ret = -1
  /\ gest.raw = 0
  /\ zone_filter[3] = 0
  /\ \E i \in 1 .. 10 : zone_filter[i] = -1

(***************************************************************************)
(* SpecLoop: the main loop, one iteration per step, over a one-zone map    *)
(* whose only map marker is 0 and whose stylus marker is 1.                *)
(***************************************************************************)
LoopMapLayout == <<0>>

LoopStylusLayout == <<1>>

\* what detectMarkers may find: nothing, the map marker, the stylus marker, or both
LoopFrames ==
  {<<>>,
   <<[id |-> 0, quad |-> Quad(<<3, 0>>)]>>,
   <<[id |-> 1, quad |-> Quad(<<5, 2>>)]>>,
   <<[id |-> 0, quad |-> Quad(<<3, 0>>)], [id |-> 1, quad |-> Quad(<<5, 2>>)]>>}

\* the map pose the solver finds: the map lies unturned at <<2, 4, 6>> from the camera
LoopMapRVec == <<0, 0, 0>>

LoopMapTVec == <<2, 4, 6>>

\* the stylus tip the solver finds: on the red pixel, and above the red pixel at
\* the height of the gate
LoopPointerTVecs == {<<3, 4, 6>>, <<3, 4, 6 + ZGate>>}

\* mutant: a skipped frame clears the zone filter
SkipFrameClearsFilter(stage) ==
  /\ loop' = [loop EXCEPT !.stage = stage,
                          !.lifted = last_trigger # NoName /\ (loop.lifted \/ stage = "no_pointer"),
                          !.retouch = loop.lifted]
  /\ zone_filter' = [i \in 1 .. zone_filter_size |-> -1]
  /\ zone_filter_cnt' = 0
  /\ conv' = ConvIdle
  /\ UNCHANGED <<gest, prev_zone_name, start_time, now, pc, last_trigger>>

\* "continue": the iteration ends; the policy and the player are left as they were,
\* and the iteration has made no convey call
SkipFrame(stage) ==
  /\ loop' = [loop EXCEPT !.stage = stage,
                          !.lifted = last_trigger # NoName /\ (loop.lifted \/ stage = "no_pointer"),
                          !.retouch = loop.lifted]
  /\ conv' = ConvIdle
  /\ UNCHANGED <<zone_filter, zone_filter_cnt, gest,
                 prev_zone_name, start_time, now, pc, last_trigger>>

\* mutant: every zone id is conveyed
ZoneValidAlways(zone_id) == TRUE

\* "if zone_id > -1"
ZoneValid(zone_id) == zone_id > -1

\* one iteration of the main loop on the markers f of the frame read; each call's
\* result is bound once (md, pd, c) and then used as the code uses its variables
Frame ==
  /\ pc = "run"
  /\ \E f \in LoopFrames, garbage \in GarbageFills(4 * Len(map_ids)), retval \in BOOLEAN :
     \E md \in {ModelDetectCall(f, garbage, retval, LoopMapRVec, LoopMapTVec)} :
       /\ frame' = f
       /\ IF ~md.ret[1]
          THEN \* "if not retval: continue"
               /\ det' = md
               /\ SkipFrame("no_map")
          ELSE \E garbage_p \in GarbageFills(4 * Len(stylus_ids)), retval_p \in BOOLEAN,
                  tvec_aruco \in LoopPointerTVecs :
               \E pd \in {PoseDetectCall(f, md.ret[2], md.ret[3], garbage_p, retval_p,
                                         tvec_aruco)} :
               /\ det' = pd
               /\ IF pd.ret = None
                  THEN \* "if point_of_interest is None: continue"
                       SkipFrame("no_pointer")
                  ELSE \E c \in {PushGestureCall(pd.ret)} :
                       /\ loop.pushes < MaxPushes
                       /\ zone_filter' = c.zone_filter
                       /\ zone_filter_cnt' = c.zone_filter_cnt
                       /\ gest' = c.gest
                       /\ IF ZoneValid(c.gest.ret)
                          THEN /\ ConveyBody(c.gest.ret)
                               /\ loop' = [stage |-> "dispatched", pushes |-> loop.pushes + 1,
                                           lifted |-> conv'.played = NoName /\ loop.lifted,
                                           retouch |-> loop.lifted]
                          ELSE /\ loop' = [stage |-> "classified", pushes |-> loop.pushes + 1,
                                           lifted |-> last_trigger # NoName,
                                           retouch |-> loop.lifted]
                               /\ conv' = ConvIdle
                               /\ UNCHANGED <<prev_zone_name, start_time, now, pc,
                                              last_trigger>>
  /\ UNCHANGED <<map_ids, stylus_ids, model, image_map_color, sound_files, call>>

\* the audio file of the map is present or missing; no frame has been read
InitLoop ==
  \E files \in SUBSET AudioFiles(OneZoneModel) :
     Constructed(OneZoneModel, OneZoneImage, files, LoopMapLayout, LoopStylusLayout, <<>>)

NextLoop == Frame \/ Tick

SpecLoop == InitLoop /\ [][NextLoop]_vars

\* no marker of the layout is among the markers of the frame
NoMarkerOf(id_list, f) == \A i \in DOMAIN f : ~InList(f[i].id, id_list)

\* the step is an iteration of the main loop that left a trace
FrameStep == frame' # frame \/ det' # det \/ loop' # loop \/ gest' # gest

\* the iteration got no map pose (no map marker seen, or the solver failed on the
\* map) or no pointer (no stylus marker seen)
NothingLocated ==
  \/ NoMarkerOf(map_ids, frame')
  \/ (det'.op = "model" /\ ~det'.ret[1])
  \/ NoMarkerOf(stylus_ids, frame')
  \/ det'.ret = None

\* the iteration ended at one of the two "continue" statements: no push_gesture
\* call, no convey call, the buffer, the cursor and the player untouched, the loop
\* still running
FrameSkipped ==
  /\ loop'.stage \in {"no_map", "no_pointer"}
  /\ loop'.pushes = loop.pushes
  /\ UNCHANGED <<zone_filter, zone_filter_cnt, gest>>
  /\ conv' = ConvIdle
  /\ UNCHANGED <<prev_zone_name, start_time, last_trigger, now>>
  /\ pc' = "run"

\* C12: an iteration that gets no map pose or no pointer runs no later stage: the
\* zone filter, its cursor and the player's state are unchanged, nothing is played,
\* and the loop goes on.
C12_SkippedFrameChangesNothing ==
  [][(FrameStep /\ NothingLocated) => FrameSkipped]_vars

\* a frame without the stylus after a sound was played: the filter still holds its
\* samples and the player still remembers the zone
C12_Witness ==
  /\ loop.stage = "no_pointer"
  /\ CountOf(zone_filter, 0) >= 6
  /\ prev_zone_name = "red zone"
  /\ pc = "run"

\* the iteration called push_gesture: it conveys exactly when the zone returned is
\* not -1, and with -1 it leaves the player as it was
ClassifiedStep ==
  gest' # gest =>
    IF gest'.ret = -1
    THEN /\ loop'.stage = "classified"
         /\ conv' = ConvIdle
         /\ UNCHANGED <<prev_zone_name, start_time, last_trigger, now, pc>>
    ELSE /\ loop'.stage = "dispatched"
         /\ conv'.op = "convey"
         /\ conv'.zone = gest'.ret
         /\ conv'.zone > -1

\* the pointer comes back to the zone whose sound was the last one played
Retouched ==
  loop.stage = "dispatched" /\ loop.retouch /\ conv.trigger # NoName /\ conv.name = conv.trigger

\* C18: convey is never called with -1: an iteration whose zone is -1 plays nothing
\* and leaves the player's state unchanged; so lifting the pointer and touching the
\* same zone again, no other sound played in between, plays nothing.
C18_NoZoneNoDispatch ==
  /\ [][ClassifiedStep]_vars
  /\ [](conv.op = "convey" => conv.zone > -1)
  /\ [](Retouched => (conv.played = NoName /\ prev_zone_name = conv.prev
                      /\ start_time = conv.start))

\* after the zone's sound was played the pointer left the surface or the picture;
\* now it touches the zone again and nothing is played
C18_Witness ==
  /\ Retouched
  /\ loop.lifted
  /\ gest.z = 0
  /\ gest.last[Len(gest.last) - 1] = 0
  /\ conv.played = NoName

====
